---- MODULE Spec2Model ----
(***************************************************************************)
(* Cross-modal association of one frame, FusionRCNN.fusion_post_processing8 *)
(* (src/pcdet/models/detectors/fusion_rcnn.py).                             *)
(*                                                                          *)
(* Candidates are named by their ROI index (the values held in              *)
(* select_from_2d / select_from_3d).  Positions in the per-modality arrays  *)
(* are 1-based here (Python: 0-based).  Scores and IoUs are integer levels: *)
(* only their order and their comparison to the thresholds are used by the  *)
(* code.  Boxes and labels are never inspected by the association, only     *)
(* copied, so each is modelled by a tag naming the array cell it is read    *)
(* from.                                                                    *)
(*                                                                          *)
(* Seven specifications share the variables:                                *)
(*   Spec      the association loops of a frame (lines 2817-2934);          *)
(*   SpecCls   the same frame from the fetch of the 2D predictions on, with *)
(*             the class label map and its mask (lines 2803-2934);          *)
(*   SpecGeom  one projected box with integer coordinates: clamp, IoU,      *)
(*             append and recover_boxes_2d (lines 2830-2844, 2962-2982);    *)
(*   SpecNms   the 3D suppression of the frame's ROIs (lines 2791-2796).    *)
(*   SpecBatch the batch loop around the frames of one call, with frames    *)
(*             whose score array is too short or too long (2749-3011);      *)
(*   Spec9     the loop of fusion_post_processing9 (lines 3098-3215);       *)
(*   SpecEither a frame of either variant, as forward() dispatches (58-83). *)
(***************************************************************************)
EXTENDS Integers, Sequences, FiniteSets, TLC

\* ------------------------------------------------------------------ bounds
MaxKeep2d == 2
MaxKeep3d == 2
MaxScore == 1
MaxIoU == 2
\* the frames that pass through the class label map
MaxKeep3dCls == 1
MaxImageClass == 3
\* the longest image side of the frames whose boxes are numbers
MaxSide == 2

\* ------------------------------------------ configuration (POST_PROCESSING)
cls_thresh_2d == 1
cls_thresh_3d == 0
iou_thresh == 1

\* enough ROIs for the two kept sets to be disjoint
NumRois == MaxKeep2d + MaxKeep3d
Rois == 0..(NumRois - 1)
Scores == 0..MaxScore
IoUs == 0..MaxIoU

VARIABLES
    org_shape,        \* batch_dict["image_shape"][index]: <<height, width>>
    cur_shape,        \* batch_dict["images"].image_sizes[index]: <<height, width>>
    image_valid_range, \* <<x_min, y_min, x_max, y_max>>
    projected_box,    \* history: a row of lidar_box_to_image_box's result
    select_project_box, \* that row of select_project_box, <<x1, y1, x2, y2>>
    pred_boxes2d,     \* record_dict["pred_boxes2d"]
    zero_area,        \* positions of the rows of select_project_box with area 0
    box_iou_above,    \* pairs of ROIs whose 3D boxes have an IoU above NMS_THRESH
    select_again,     \* class_agnostic_nms applied once more, to its own result
    has_cls_map,      \* hasattr(self, "cls_map")
    preds_dict_2d,    \* batch_dict["image_preds"][index]: what the 2D branch predicted
    batch_box_keep2d, \* batch_dict["batch_box_keep2d"][index]
    label_preds_2d,   \* label of each 2D prediction (by position)
    selected_boxes_2d, \* box of each 2D prediction (by position)
    select_from_2d,   \* batch_box_keep2d[index]: ROI index of each 2D prediction
    select_from_3d,   \* ROI indices kept by the 3D NMS
    cls_preds_2d,     \* score of each 2D prediction (by position)
    cls_preds_3d,     \* score of each ROI's 3D box (by ROI index)
    boxes_iou,        \* boxes_iou_normal(selected_boxes_2d, select_project_box)
    indices_both,     \* elements of indices_both the for loop has not visited yet
    indices_2d,       \* sorted list of still-unmatched 2D candidates
    indices_3d,       \* sorted list of still-unmatched 3D candidates
    non_match,
    final_scores_2d, final_labels_2d, final_boxes_2d,
    final_scores_3d, final_labels_3d, final_boxes_3d,
    only_in_3d, only_in_2d, both,
    only3d_ious, only2d_ious, both_ious,
    groups,           \* history: the branch that disposed of each candidate
    batch_dict,       \* the frames of the call, one entry per batch index
    index,            \* frames the batch loop has finished
    pred_dicts,       \* one record_dict per finished frame
    pc                \* where the call is: "assoc" | "done" | "raised" | ...

inputs2d == <<has_cls_map, preds_dict_2d, batch_box_keep2d, label_preds_2d,
              selected_boxes_2d>>
geometry == <<org_shape, cur_shape, image_valid_range, projected_box,
              select_project_box, pred_boxes2d>>
suppression == <<box_iou_above, select_again>>
batch == <<batch_dict, index, pred_dicts>>
inputs == <<batch, inputs2d, geometry, suppression, zero_area, select_from_2d, select_from_3d, cls_preds_2d, cls_preds_3d,
            boxes_iou>>
lists2d == <<final_scores_2d, final_labels_2d, final_boxes_2d>>
lists3d == <<final_scores_3d, final_labels_3d, final_boxes_3d>>
counters == <<only_in_3d, only_in_2d, both>>
ious == <<only3d_ious, only2d_ious, both_ious>>
vars == <<inputs, indices_both, indices_2d, indices_3d, non_match,
          lists2d, lists3d, counters, ious, groups, pc>>

\* ----------------------------------------------------------------- helpers
Range(s) == {s[k] : k \in DOMAIN s}

Maximum(S) == CHOOSE x \in S : \A y \in S : y <= x

\* list.pop(0) in place of list.pop(): the list is taken from its front
Forward(s) == s

\* the order in which list.pop() hands out the elements of s: last one first
Reverse(s) == [k \in 1..Len(s) |-> s[Len(s) + 1 - k]]

\* list.pop() in place of list.pop(k): the last element leaves the list
PopLast(s, k) == [n \in 1..(Len(s) - 1) |-> s[n]]

\* list.pop(k) with k 0-based: the list without its element k
PopAt(s, k) == [n \in 1..(Len(s) - 1) |-> IF n <= k THEN s[n] ELSE s[n + 1]]

\* sorted(list(S))
Minimum(S) == CHOOSE x \in S : \A y \in S : x <= y
RECURSIVE Sorted(_)
Sorted(S) ==
    IF S = {} THEN << >> ELSE <<Minimum(S)>> \o Sorted(S \ {Minimum(S)})

DistinctSeqs(S, n) ==
    {s \in UNION {[1..k -> S] : k \in 0..n} :
        \A a, b \in DOMAIN s : a # b => s[a] # s[b]}

\* cells of the input arrays, as copied to the output lists
Box2d(j) == <<"selected_boxes_2d", j>>
Label2d(j) == <<"label_preds_2d", j>>
Box3d(idx) == <<"box_preds_3d", idx>>
Label3d(idx) == <<"label_preds_3d", idx>>
ProjBox(i) == <<"select_project_box", i>>

\* ------------------------------------------------- derived per-frame values
\* inverse_idx_2d / inverse_idx_3d: ROI index -> position
inverse_idx_2d(idx) == CHOOSE j \in DOMAIN select_from_2d : select_from_2d[j] = idx
inverse_idx_3d(idx) == CHOOSE i \in DOMAIN select_from_3d : select_from_3d[i] = idx

\* iou_matrix, a zero matrix with no empty axis when one side has no candidate
iou_rows == Maximum({1, Len(select_from_2d)})
iou_cols == Maximum({1, Len(select_from_3d)})
iou_matrix ==
    IF Len(select_from_2d) = 0 \/ Len(select_from_3d) = 0
    THEN [c \in (1..iou_rows) \X (1..iou_cols) |-> 0]
    ELSE boxes_iou

max_iou_2d(j) == Maximum({iou_matrix[<<j, i>>] : i \in 1..iou_cols})
max_iou_3d(i) == Maximum({iou_matrix[<<j, i>>] : j \in 1..iou_rows})

\* the index sets before the loops
all_indices_both == Range(select_from_2d) \cap Range(select_from_3d)
init_indices_2d_keep_both == Sorted(Range(select_from_2d))
init_indices_2d == Sorted(Range(select_from_2d) \ all_indices_both)
\* `indices_3d -= indices_both` left out
init_indices_3d_keep_both == Sorted(Range(select_from_3d))
init_indices_3d == Sorted(Range(select_from_3d) \ all_indices_both)

\* the accumulators of a frame start empty
stale_list == <<"previous frame">>
new_list == << >>

\* ------------------------------------------------------- the greedy matcher
\* sub_iou_matrix = iou_matrix[x_idx][:, y_idx], flattened row-major, 0-based
SubIoU(l2, l3, f) ==
    iou_matrix[<<inverse_idx_2d(l2[(f \div Len(l3)) + 1]),
                 inverse_idx_3d(l3[(f % Len(l3)) + 1])>>]

\* torch.argmax(sub_iou_matrix): flat index of the first maximal value
FirstFlat(l2, l3) == 0
ArgMax(l2, l3) ==
    LET flat == 0..(Len(l2) * Len(l3) - 1)
        best == Maximum({SubIoU(l2, l3, f) : f \in flat})
    IN  CHOOSE f \in flat :
            /\ SubIoU(l2, l3, f) = best
            /\ \A g \in flat : SubIoU(l2, l3, g) = best => f <= g

\* if sub_iou_matrix[_j, _i] >= iou_thresh
CommitAlways(v, t) == TRUE
CommitStrict(v, t) == v > t
CommitBelow(v, t) == v < t
CommitOK(v, t) == v >= t

\* salvage tests
Keep2dStrict(idx2d) == cls_preds_2d[inverse_idx_2d(idx2d)] > cls_thresh_2d
Keep2d(idx2d) == cls_preds_2d[inverse_idx_2d(idx2d)] >= cls_thresh_2d
Keep3dInclusive(idx3d) == cls_preds_3d[idx3d] >= cls_thresh_3d
Keep3dOverlapping(idx3d) ==
    /\ cls_preds_3d[idx3d] > cls_thresh_3d
    /\ max_iou_3d(inverse_idx_3d(idx3d)) >= iou_thresh
Keep3d(idx3d) == cls_preds_3d[idx3d] > cls_thresh_3d

\* while len(indices_2d) > 0 or len(indices_3d) > 0
WhileCond == Len(indices_2d) > 0 \/ Len(indices_3d) > 0

\* if len(indices_2d) == 0 or len(indices_3d) == 0 or non_match
SalvageOnlyOnStop == non_match
\* `or non_match` left out: a failed iteration is followed by another argmax
SalvageWhenExhausted == Len(indices_2d) = 0 \/ Len(indices_3d) = 0
SalvageCond == Len(indices_2d) = 0 \/ Len(indices_3d) = 0 \/ non_match

SeqMap(Op(_), s) == [k \in 1..Len(s) |-> Op(s[k])]

\* the loop of lines 2881-2934 as a function of the threshold t: the pairs it
\* commits, in commit order, from the unmatched lists l2 and l3
RECURSIVE GreedyPairs(_, _, _)
GreedyPairs(l2, l3, t) ==
    IF Len(l2) = 0 \/ Len(l3) = 0
    THEN << >>
    ELSE LET max_idx == ArgMax(l2, l3)
             sub_j == max_idx \div Len(l3)
             sub_i == max_idx % Len(l3)
         IN  IF CommitOK(SubIoU(l2, l3, max_idx), t)
             THEN <<<<l2[sub_j + 1], l3[sub_i + 1]>>>>
                      \o GreedyPairs(PopAt(l2, sub_j), PopAt(l3, sub_i), t)
             ELSE << >>

\* the matched group the frame's input yields under threshold t
MatchedWith(t) ==
    {<<idx, idx>> : idx \in all_indices_both}
        \cup Range(GreedyPairs(init_indices_2d, init_indices_3d, t))

\* --------------------------------------------------------------------- Init
NoGroups ==
    [matched |-> << >>, only2d |-> << >>, only3d |-> << >>,
     dropped2d |-> << >>, dropped3d |-> << >>]

\* what boxes_iou_normal gives for a box without area: no intersection, IoU 0
\* with every box (z: the columns of such boxes)
ZeroAreaNoOverlap(z, iou) == \A c \in DOMAIN iou : c[2] \in z => iou[c] = 0

\* the association reads no coordinate: its specifications leave the boxes
\* to the tags and these variables unused
AbstractGeometry ==
    /\ org_shape = "tags" /\ cur_shape = "tags" /\ image_valid_range = "tags"
    /\ projected_box = "tags" /\ select_project_box = "tags"
    /\ pred_boxes2d = "tags"

\* the frames that start after the 3D suppression take its result as given
SuppressionDone == box_iou_above = "given" /\ select_again = "given"

\* the frames looked at on their own: the batch around them is not modelled
OneFrame == batch_dict = "one frame" /\ index = 0 /\ pred_dicts = << >>

\* ------------------------------------------------------ the class label map
NumImageClasses == 9
CLASS_NAMES == <<"Car", "Pedestrian">>

\* the dictionary from a CLASS_NAMES entry to the image branch's class
cityscape_cls(cls) == IF cls = "Car" THEN 3 ELSE 1

\* self.cls_map: zeros, then cls_map[mapped_cls] = i + 1 for the i-th class name
\* (i is 0-based in the code)
cls_map ==
    [k \in 0..(NumImageClasses - 1) |->
        IF \E i \in DOMAIN CLASS_NAMES : cityscape_cls(CLASS_NAMES[i]) = k
        THEN CHOOSE i \in DOMAIN CLASS_NAMES : cityscape_cls(CLASS_NAMES[i]) = k
        ELSE 0]

\* the box the 2D branch predicted at position p of its output
PredBox(p) == <<"pred_boxes", p>>

\* `mask = label_preds_2d >= 0`: nothing is filtered out
mask_keep_all(label) == label >= 0

\* mask = label_preds_2d > 0
mask(label) == label > 0

\* tensor[mask]: the elements at the positions pos, in order
Index(s, pos) == [n \in DOMAIN pos |-> s[pos[n]]]

Init ==
    /\ select_from_2d \in DistinctSeqs(Rois, MaxKeep2d)
    /\ select_from_3d \in DistinctSeqs(Rois, MaxKeep3d)
    \* ROIs kept by neither side take no part: the kept ones are numbered from 0
    /\ \E u \in 0..NumRois :
          Range(select_from_2d) \cup Range(select_from_3d) = 0..(u - 1)
    /\ cls_preds_2d \in [DOMAIN select_from_2d -> Scores]
    \* the scores of ROIs the NMS suppressed are never read: fixed to 0
    /\ cls_preds_3d \in {f \in [Rois -> Scores] :
                            \A r \in Rois \ Range(select_from_3d) : f[r] = 0}
    /\ boxes_iou \in [(DOMAIN select_from_2d) \X (DOMAIN select_from_3d) -> IoUs]
    /\ zero_area \in {z \in SUBSET (DOMAIN select_from_3d) : ZeroAreaNoOverlap(z, boxes_iou)}
    /\ AbstractGeometry
    /\ SuppressionDone
    /\ OneFrame
    \* no class label map: the 2D predictions are used as they come
    /\ has_cls_map = FALSE
    /\ batch_box_keep2d = select_from_2d
    /\ preds_dict_2d =
          [pred_classes |-> [j \in DOMAIN select_from_2d |-> cityscape_cls("Car")],
           scores |-> cls_preds_2d,
           pred_boxes_iou |-> boxes_iou]
    /\ label_preds_2d = preds_dict_2d.pred_classes
    /\ selected_boxes_2d = [j \in DOMAIN select_from_2d |-> PredBox(j)]
    /\ indices_both = all_indices_both
    /\ indices_2d = init_indices_2d
    /\ indices_3d = init_indices_3d
    /\ non_match = FALSE
    /\ final_scores_2d = new_list /\ final_labels_2d = new_list
    /\ final_boxes_2d = new_list
    /\ final_scores_3d = new_list /\ final_labels_3d = new_list
    /\ final_boxes_3d = new_list
    /\ only_in_3d = 0 /\ only_in_2d = 0 /\ both = 0
    /\ only3d_ious = new_list /\ only2d_ious = new_list /\ both_ious = new_list
    /\ groups = NoGroups
    /\ pc = "assoc"

\* a frame as fetched (line 2814 not reached yet), with or without a class
\* label map
InitCls ==
    /\ AbstractGeometry
    /\ SuppressionDone
    /\ OneFrame
    /\ zero_area = {}
    /\ has_cls_map \in BOOLEAN
    /\ batch_box_keep2d \in DistinctSeqs(Rois, MaxKeep2d)
    /\ select_from_3d \in DistinctSeqs(Rois, MaxKeep3dCls)
    /\ \E u \in 0..NumRois :
          Range(batch_box_keep2d) \cup Range(select_from_3d) = 0..(u - 1)
    /\ preds_dict_2d \in
          [pred_classes : [DOMAIN batch_box_keep2d -> 0..MaxImageClass],
           scores : [DOMAIN batch_box_keep2d -> Scores],
           pred_boxes_iou :
               [(DOMAIN batch_box_keep2d) \X (DOMAIN select_from_3d) -> IoUs]]
    /\ cls_preds_3d \in {f \in [Rois -> Scores] :
                            \A r \in Rois \ Range(select_from_3d) : f[r] = 0}
    /\ select_from_2d = batch_box_keep2d
    /\ selected_boxes_2d = [j \in DOMAIN batch_box_keep2d |-> PredBox(j)]
    /\ label_preds_2d = preds_dict_2d.pred_classes
    /\ cls_preds_2d = preds_dict_2d.scores
    \* not computed yet
    /\ boxes_iou = << >>
    /\ indices_both = {}
    /\ indices_2d = << >>
    /\ indices_3d = << >>
    /\ non_match = FALSE
    /\ final_scores_2d = new_list /\ final_labels_2d = new_list
    /\ final_boxes_2d = new_list
    /\ final_scores_3d = new_list /\ final_labels_3d = new_list
    /\ final_boxes_3d = new_list
    /\ only_in_3d = 0 /\ only_in_2d = 0 /\ both = 0
    /\ only3d_ious = new_list /\ only2d_ious = new_list /\ both_ious = new_list
    /\ groups = NoGroups
    /\ pc = "fetch"

\* ------------------------------------------------- what a branch appends
\* box_preds_3d[_j] in place of box_preds_3d[idx2d] (_j is 0-based in the code)
only2d_box_3d_by_pos(idx2d) == Box3d(inverse_idx_2d(idx2d) - 1)

\* the 3D box the 2D salvage appends: row idx2d of box_preds_3d, the 3D box
\* the ROI of that index has
only2d_box_3d(idx2d) == Box3d(idx2d)

\* select_project_box[idx3d] in place of select_project_box[_i]
only3d_box_2d_by_roi(idx3d) == ProjBox(idx3d + 1)

\* the 2D box the 3D salvage appends: the candidate's row of select_project_box
only3d_box_2d(idx3d) == ProjBox(inverse_idx_3d(idx3d))

\* the row of the sub-matrix used as the position, `_j = inverse_idx_2d[idx2d]`
\* left out
commit_j_sub(sub_j, idx2d) == sub_j + 1

\* the position a commit reads the 2D arrays at
commit_j(sub_j, idx2d) == inverse_idx_2d(idx2d)

\* ------------------------------------------------------------------ actions
\* lines 2808-2866: the class label map and its mask, the IoU matrix of what
\* is left, the index sets
ClsMapFilter ==
    /\ pc = "fetch"
    /\ LET mapped == [j \in DOMAIN label_preds_2d |-> cls_map[label_preds_2d[j]]]
           labels == IF has_cls_map THEN mapped ELSE label_preds_2d
           keep == IF has_cls_map
                   THEN Sorted({j \in DOMAIN mapped : mask(mapped[j])})
                   ELSE [j \in DOMAIN label_preds_2d |-> j]
       IN  /\ select_from_2d' = Index(select_from_2d, keep)
           /\ label_preds_2d' = Index(labels, keep)
           /\ cls_preds_2d' = Index(cls_preds_2d, keep)
           /\ selected_boxes_2d' = Index(selected_boxes_2d, keep)
           \* boxes_iou_normal of the boxes that are left
           /\ boxes_iou' =
                [c \in (DOMAIN keep) \X (DOMAIN select_from_3d) |->
                    preds_dict_2d.pred_boxes_iou[<<keep[c[1]], c[2]>>]]
    /\ UNCHANGED <<batch, geometry, suppression, zero_area, has_cls_map, preds_dict_2d, batch_box_keep2d,
                   select_from_3d, cls_preds_3d, non_match, lists2d, lists3d, counters, ious,
                   groups>>
    /\ indices_both' = all_indices_both'
    /\ indices_2d' = init_indices_2d'
    /\ indices_3d' = init_indices_3d'
    /\ pc' = "assoc"

\* one iteration of `for idx in indices_both` (set iteration order is not
\* specified: any unvisited element may come next)
ForBoth ==
    /\ pc = "assoc"
    /\ \E idx \in indices_both :
        LET _j == inverse_idx_2d(idx)
            _i == inverse_idx_3d(idx)
        IN  /\ final_scores_2d' = Append(final_scores_2d, cls_preds_2d[_j])
            /\ final_labels_2d' = Append(final_labels_2d, Label2d(_j))
            /\ final_boxes_2d' = Append(final_boxes_2d, Box2d(_j))
            /\ final_scores_3d' = Append(final_scores_3d, cls_preds_3d[idx])
            /\ final_labels_3d' = Append(final_labels_3d, Label3d(idx))
            /\ final_boxes_3d' = Append(final_boxes_3d, Box3d(idx))
            /\ both_ious' = Append(both_ious, iou_matrix[<<_j, _i>>])
            /\ both' = both + 1
            /\ groups' = [groups EXCEPT !.matched = Append(@, <<idx, idx>>)]
            /\ indices_both' = indices_both \ {idx}
    /\ UNCHANGED <<inputs, indices_2d, indices_3d, non_match, only_in_3d,
                   only_in_2d, only3d_ious, only2d_ious, pc>>

\* one iteration of the while loop that does not enter the salvage branch
WhileMatch ==
    /\ pc = "assoc"
    /\ indices_both = {}
    /\ WhileCond
    /\ ~SalvageCond
    /\ IF Len(indices_2d) * Len(indices_3d) = 0
       THEN \* torch.argmax of a tensor with no element raises
            /\ pc' = "raised"
            /\ UNCHANGED <<inputs, indices_both, indices_2d, indices_3d, non_match,
                           lists2d, lists3d, counters, ious, groups>>
       ELSE LET max_idx == ArgMax(indices_2d, indices_3d)
                sub_j == max_idx \div Len(indices_3d)
                sub_i == max_idx % Len(indices_3d)
                idx3d == indices_3d[sub_i + 1]
                idx2d == indices_2d[sub_j + 1]
                _j == commit_j(sub_j, idx2d)
                _i == inverse_idx_3d(idx3d)
            IN  IF CommitOK(SubIoU(indices_2d, indices_3d, max_idx), iou_thresh)
                THEN /\ indices_3d' = PopAt(indices_3d, sub_i)
                     /\ indices_2d' = PopAt(indices_2d, sub_j)
                     /\ final_scores_2d' = Append(final_scores_2d, cls_preds_2d[_j])
                     /\ final_labels_2d' = Append(final_labels_2d, Label2d(_j))
                     /\ final_boxes_2d' = Append(final_boxes_2d, Box2d(_j))
                     /\ final_scores_3d' = Append(final_scores_3d, cls_preds_3d[idx3d])
                     /\ final_labels_3d' = Append(final_labels_3d, Label3d(idx3d))
                     /\ final_boxes_3d' = Append(final_boxes_3d, Box3d(idx3d))
                     /\ both_ious' = Append(both_ious, iou_matrix[<<_j, _i>>])
                     /\ both' = both + 1
                     /\ groups' = [groups EXCEPT
                                     !.matched = Append(@, <<idx2d, idx3d>>)]
                     /\ UNCHANGED <<inputs, indices_both, non_match, only_in_3d,
                                    only_in_2d, only3d_ious, only2d_ious, pc>>
                ELSE /\ non_match' = TRUE
                     /\ UNCHANGED <<inputs, indices_both, indices_2d, indices_3d,
                                    lists2d, lists3d, counters, ious, groups, pc>>

\* line 2892 left out: a 2D-only detection gets no entry in final_boxes_3d
salvaged_boxes_3d_of_3d_only(kept2d, kept3d) == SeqMap(Box3d, kept3d)

\* what the two salvage loops append to final_boxes_3d (lines 2892 and 2908)
salvaged_boxes_3d(kept2d, kept3d) ==
    SeqMap(only2d_box_3d, kept2d) \o SeqMap(Box3d, kept3d)

\* the salvage branch: both inner while loops, then break
WhileSalvage ==
    /\ pc = "assoc"
    /\ indices_both = {}
    /\ WhileCond
    /\ SalvageCond
    /\ LET pop2d == Reverse(indices_2d)    \* order of indices_2d.pop()
           pop3d == Reverse(indices_3d)
           kept2d == SelectSeq(pop2d, Keep2d)
           kept3d == SelectSeq(pop3d, Keep3d)
           Score2d(x) == cls_preds_2d[inverse_idx_2d(x)]
           Lab2d(x) == Label2d(inverse_idx_2d(x))
           Bx2d(x) == Box2d(inverse_idx_2d(x))
           MaxIoU2d(x) == max_iou_2d(inverse_idx_2d(x))
           Score3d(x) == cls_preds_3d[x]
           MaxIoU3d(x) == max_iou_3d(inverse_idx_3d(x))
           Drop2d(x) == ~Keep2d(x)
           Drop3d(x) == ~Keep3d(x)
       IN  /\ final_scores_2d' =
                final_scores_2d \o SeqMap(Score2d, kept2d) \o SeqMap(Score3d, kept3d)
           /\ final_labels_2d' =
                final_labels_2d \o SeqMap(Lab2d, kept2d) \o SeqMap(Label3d, kept3d)
           /\ final_boxes_2d' =
                final_boxes_2d \o SeqMap(Bx2d, kept2d) \o SeqMap(only3d_box_2d, kept3d)
           /\ final_scores_3d' =
                final_scores_3d \o SeqMap(Score2d, kept2d) \o SeqMap(Score3d, kept3d)
           /\ final_labels_3d' =
                final_labels_3d \o SeqMap(Lab2d, kept2d) \o SeqMap(Label3d, kept3d)
           /\ final_boxes_3d' = final_boxes_3d \o salvaged_boxes_3d(kept2d, kept3d)
           /\ only2d_ious' = only2d_ious \o SeqMap(MaxIoU2d, kept2d)
           /\ only_in_2d' = only_in_2d + Len(kept2d)
           /\ only3d_ious' = only3d_ious \o SeqMap(MaxIoU3d, kept3d)
           /\ only_in_3d' = only_in_3d + Len(kept3d)
           /\ groups' = [groups EXCEPT
                           !.only2d = @ \o kept2d,
                           !.dropped2d = @ \o SelectSeq(pop2d, Drop2d),
                           !.only3d = @ \o kept3d,
                           !.dropped3d = @ \o SelectSeq(pop3d, Drop3d)]
    /\ indices_2d' = << >>
    /\ indices_3d' = << >>
    /\ pc' = "done"
    /\ UNCHANGED <<inputs, indices_both, non_match, both, both_ious>>

\* the while condition is false: nothing is left on either side
WhileExit ==
    /\ pc = "assoc"
    /\ indices_both = {}
    /\ ~WhileCond
    /\ pc' = "done"
    /\ UNCHANGED <<inputs, indices_both, indices_2d, indices_3d, non_match,
                   lists2d, lists3d, counters, ious, groups>>

Next == ForBoth \/ WhileMatch \/ WhileSalvage \/ WhileExit

Spec == Init /\ [][Next]_vars

\* a frame from the fetch of the 2D predictions on
NextCls == ClsMapFilter \/ Next
SpecCls == InitCls /\ [][NextCls]_vars

\* ---------------------------------------------- one box, with coordinates
\* The clamp, the append of a 2D box and recover_boxes_2d act on each row by
\* itself: the frames here have one 3D candidate, whose projected box is the
\* row, and emit at most one detection.
Sides == (MaxSide - 1)..MaxSide
Shapes == Sides \X Sides
Coord == (0 - 1)..(MaxSide + 1)

\* an axis-aligned box <<x1, y1, x2, y2>> with its corners in order
Boxes(xs, ys) ==
    {b \in xs \X ys \X xs \X ys : b[1] <= b[3] /\ b[2] <= b[4]}

Min2(a, b) == IF a <= b THEN a ELSE b
Max2(a, b) == IF a >= b THEN a ELSE b

\* Tensor.clamp_(min, max)
clamp_(v, min, max) == Min2(Max2(v, min), max)

\* the upper limits taken as image_valid_range[2] and [3], without the - 1
ClampBoxToMax(b, vr) ==
    <<clamp_(b[1], vr[1], vr[3]), clamp_(b[2], vr[2], vr[4]),
      clamp_(b[3], vr[1], vr[3]), clamp_(b[4], vr[2], vr[4])>>

\* the four clamp_ calls on the columns of select_project_box
ClampBox(b, vr) ==
    <<clamp_(b[1], vr[1], vr[3] - 1), clamp_(b[2], vr[2], vr[4] - 1),
      clamp_(b[3], vr[1], vr[3] - 1), clamp_(b[4], vr[2], vr[4] - 1)>>

\* recover_boxes_2d: the box rescaled from the network-input image size to
\* the original image shape and cropped to it (shapes are <<height, width>>)
recover_boxes_2d(b, org, cur) ==
    <<clamp_((b[1] * org[2]) \div cur[2], 0, org[2]),
      clamp_((b[2] * org[1]) \div cur[1], 0, org[1]),
      clamp_((b[3] * org[2]) \div cur[2], 0, org[2]),
      clamp_((b[4] * org[1]) \div cur[1], 0, org[1])>>

\* the boxes are handed on as they are, recover_boxes_2d is not called
pred_boxes2d_as_emitted(boxes, org, cur) == boxes

\* final_boxes_2d as the record gets it: recovered when there is a box
pred_boxes2d_of(boxes, org, cur) ==
    IF Len(boxes) > 0
    THEN [k \in DOMAIN boxes |-> recover_boxes_2d(boxes[k], org, cur)]
    ELSE boxes

\* no class label map, one 3D candidate, one box of the 2D branch
InitGeom ==
    /\ org_shape \in Shapes
    /\ cur_shape \in Shapes
    \* a sub-rectangle of the network-input image
    /\ image_valid_range \in
          {vr \in (0..MaxSide) \X (0..MaxSide) \X (0..MaxSide) \X (0..MaxSide) :
              /\ vr[1] < vr[3] /\ vr[3] <= cur_shape[2]
              /\ vr[2] < vr[4] /\ vr[4] <= cur_shape[1]}
    /\ projected_box \in Boxes(Coord, Coord)
    /\ select_project_box = projected_box
    /\ SuppressionDone
    /\ OneFrame
    /\ zero_area = {}
    /\ pred_boxes2d = << >>
    /\ has_cls_map = FALSE
    /\ batch_box_keep2d = <<1>>
    /\ preds_dict_2d = [pred_classes |-> <<cityscape_cls("Car")>>,
                        scores |-> <<MaxScore>>,
                        pred_boxes_iou |-> << >>]
    /\ label_preds_2d = preds_dict_2d.pred_classes
    \* the box of the 2D branch is drawn where it is first read
    /\ selected_boxes_2d = << >>
    /\ select_from_2d = <<1>>
    /\ select_from_3d = <<0>>
    /\ cls_preds_2d = preds_dict_2d.scores
    /\ cls_preds_3d = [r \in Rois |-> 0]
    /\ boxes_iou = << >>
    /\ indices_both = {}
    /\ indices_2d = <<1>>
    /\ indices_3d = <<0>>
    /\ non_match = FALSE
    /\ final_scores_2d = new_list /\ final_labels_2d = new_list
    /\ final_boxes_2d = new_list
    /\ final_scores_3d = new_list /\ final_labels_3d = new_list
    /\ final_boxes_3d = new_list
    /\ only_in_3d = 0 /\ only_in_2d = 0 /\ both = 0
    /\ only3d_ious = new_list /\ only2d_ious = new_list /\ both_ious = new_list
    /\ groups = NoGroups
    /\ pc = "projected"

Area(b) == (b[3] - b[1]) * (b[4] - b[2])

\* boxes_iou_normal of one pair of boxes <<x1, y1, x2, y2>>, as the fraction
\* <<area of the intersection, area of the union>> (the union is kept above 0)
boxes_iou_normal(a, b) ==
    LET w == Max2(0, Min2(a[3], b[3]) - Max2(a[1], b[1]))
        h == Max2(0, Min2(a[4], b[4]) - Max2(a[2], b[2]))
    IN  <<w * h, Max2(Area(a) + Area(b) - w * h, 1)>>

\* what the steps on one box leave alone
but_boxes == <<batch, org_shape, cur_shape, image_valid_range, projected_box,
               suppression,
               has_cls_map, preds_dict_2d, batch_box_keep2d, label_preds_2d,
               select_from_2d, select_from_3d, cls_preds_2d,
               cls_preds_3d, indices_both, indices_2d, indices_3d,
               non_match, final_scores_2d, final_labels_2d, lists3d, counters,
               ious, groups>>

\* lines 2832-2843
Clamp ==
    /\ pc = "projected"
    /\ select_project_box' = ClampBox(select_project_box, image_valid_range)
    /\ zero_area' = {i \in DOMAIN select_from_3d : Area(select_project_box') = 0}
    /\ pc' = "clamped"
    /\ UNCHANGED <<but_boxes, selected_boxes_2d, boxes_iou, final_boxes_2d,
                   pred_boxes2d>>

\* line 2844, for one box of the 2D branch: it lies in the network-input
\* image and has an area
BuildIoU ==
    /\ pc = "clamped"
    /\ \E b \in Boxes(0..cur_shape[2], 0..cur_shape[1]) :
          /\ b[1] < b[3] /\ b[2] < b[4]
          /\ selected_boxes_2d' = <<b>>
          /\ boxes_iou' = [c \in {<<1, 1>>} |-> boxes_iou_normal(b, select_project_box)]
    /\ pc' = "iou"
    /\ UNCHANGED <<but_boxes, zero_area, select_project_box, final_boxes_2d, pred_boxes2d>>

\* final_boxes_2d.append(select_project_box[_i]): the 3D candidate is salvaged
AppendProjected ==
    /\ pc = "iou"
    /\ final_boxes_2d' = Append(final_boxes_2d, select_project_box)
    /\ pc' = "appended"
    /\ UNCHANGED <<but_boxes, zero_area, selected_boxes_2d, boxes_iou, select_project_box,
                   pred_boxes2d>>

\* final_boxes_2d.append(selected_boxes_2d[_j]): the box of the 2D branch
AppendSelected ==
    /\ pc = "iou"
    /\ final_boxes_2d' = Append(final_boxes_2d, selected_boxes_2d[1])
    /\ pc' = "appended"
    /\ UNCHANGED <<but_boxes, zero_area, selected_boxes_2d, boxes_iou, select_project_box,
                   pred_boxes2d>>

\* the candidates are dropped: the frame emits nothing
AppendNothing ==
    /\ pc = "iou"
    /\ pc' = "appended"
    /\ UNCHANGED <<but_boxes, zero_area, selected_boxes_2d, boxes_iou, select_project_box,
                   final_boxes_2d, pred_boxes2d>>

\* lines 2962-2963 and the record's "pred_boxes2d"
Recover ==
    /\ pc = "appended"
    /\ pred_boxes2d' = pred_boxes2d_of(final_boxes_2d, org_shape, cur_shape)
    /\ pc' = "assembled"
    /\ UNCHANGED <<but_boxes, zero_area, selected_boxes_2d, boxes_iou, select_project_box,
                   final_boxes_2d>>

NextGeom == Clamp \/ BuildIoU \/ AppendProjected \/ AppendSelected \/ AppendNothing \/ Recover
SpecGeom == InitGeom /\ [][NextGeom]_vars

\* --------------------------------------------------- the 3D suppression
\* SCORE_THRESH of POST_PROCESSING, and the levels a 3D score is drawn from:
\* one below it, two at or above it
score_thresh == 1
NmsScores == 0..(MaxScore + 1)
RoiPairs == {pr \in SUBSET Rois : Cardinality(pr) = 2}

\* greedy selection: the highest remaining score (the lowest index among
\* equal scores) is selected and what overlaps it above the threshold is
\* discarded, until nothing remains
RECURSIVE GreedyNms(_, _, _)
GreedyNms(remaining, box_scores, above) ==
    IF remaining = {}
    THEN << >>
    ELSE LET top == CHOOSE x \in remaining :
                        \A y \in remaining :
                            \/ box_scores[y] < box_scores[x]
                            \/ box_scores[y] = box_scores[x] /\ x <= y
         IN  <<top>> \o GreedyNms({y \in remaining \ {top} : {top, y} \notin above},
                                  box_scores, above)

\* model_nms_utils.class_agnostic_nms on the candidates cands: the greedy
\* selection, then without what is below the score threshold
class_agnostic_nms(cands, box_scores, above, thresh) ==
    LET AtLeast(x) == box_scores[x] >= thresh
    IN  SelectSeq(GreedyNms(cands, box_scores, above), AtLeast)

\* every ROI is handed on, the suppression is not called
select_every_roi(box_scores, above) == Sorted(Rois)

\* the call at lines 2791-2796: all ROIs of the frame, their 3D scores,
\* NMS_CONFIG and SCORE_THRESH
select_from_3d_of(box_scores, above) ==
    class_agnostic_nms(Rois, box_scores, above, score_thresh)

\* a frame before the 3D suppression; the 2D side is not fetched yet
InitNms ==
    /\ cls_preds_3d \in [Rois -> NmsScores]
    /\ box_iou_above \in SUBSET RoiPairs
    /\ select_from_3d = << >>
    /\ select_again = << >>
    /\ AbstractGeometry
    /\ OneFrame
    /\ zero_area = {}
    /\ has_cls_map = FALSE
    /\ batch_box_keep2d = << >>
    /\ preds_dict_2d = [pred_classes |-> << >>, scores |-> << >>,
                        pred_boxes_iou |-> << >>]
    /\ label_preds_2d = << >>
    /\ selected_boxes_2d = << >>
    /\ select_from_2d = << >>
    /\ cls_preds_2d = << >>
    /\ boxes_iou = << >>
    /\ indices_both = {}
    /\ indices_2d = << >>
    /\ indices_3d = << >>
    /\ non_match = FALSE
    /\ final_scores_2d = new_list /\ final_labels_2d = new_list
    /\ final_boxes_2d = new_list
    /\ final_scores_3d = new_list /\ final_labels_3d = new_list
    /\ final_boxes_3d = new_list
    /\ only_in_3d = 0 /\ only_in_2d = 0 /\ both = 0
    /\ only3d_ious = new_list /\ only2d_ious = new_list /\ both_ious = new_list
    /\ groups = NoGroups
    /\ pc = "rois"

but_selection == <<batch, inputs2d, geometry, zero_area, box_iou_above, select_from_2d,
                   cls_preds_2d, cls_preds_3d, boxes_iou, indices_both,
                   indices_2d, indices_3d, non_match, lists2d, lists3d, counters,
                   ious, groups>>

\* lines 2791-2796
Nms3d ==
    /\ pc = "rois"
    /\ select_from_3d' = select_from_3d_of(cls_preds_3d, box_iou_above)
    /\ pc' = "suppressed"
    /\ UNCHANGED <<but_selection, select_again>>

\* the suppression applied to the ROIs it has just returned
NmsAgain ==
    /\ pc = "suppressed"
    /\ select_again' = class_agnostic_nms(Range(select_from_3d), cls_preds_3d,
                                          box_iou_above, score_thresh)
    /\ pc' = "suppressed again"
    /\ UNCHANGED <<but_selection, select_from_3d>>

NextNms == Nms3d \/ NmsAgain
SpecNms == InitNms /\ [][NextNms]_vars

\* ------------------------------------------------------- the batch loop
\* frames of a call, candidates of either modality in one of its frames, and
\* how many different frames a call holds
MaxFrames == 3
MaxKeepFrame == 1
MaxDistinctFrames == 2

\* the score arrays a frame with n kept 2D indices may come with: one score
\* per kept index, or one score short, or one score (0) too many
ScoreArrays(n) ==
    [1..n -> Scores]
        \cup (IF n > 0 THEN [1..(n - 1) -> Scores] ELSE {})
        \cup {Append(a, 0) : a \in [1..n -> Scores]}

\* entry `index` of the per-frame fields of batch_dict: the kept 2D indices
\* and the scores of the 2D branch, the ROIs the 3D suppression keeps and the
\* 3D scores, the IoUs of the boxes of the two sides
FramesOf(keep2d, keep3d) ==
    {[batch_box_keep2d |-> keep2d,
      scores |-> sc,
      select_from_3d |-> keep3d,
      batch_cls_preds |-> c3,
      pred_boxes_iou |-> m] :
        sc \in ScoreArrays(Len(keep2d)),
        c3 \in {f \in [Rois -> Scores] : \A r \in Rois \ Range(keep3d) : f[r] = 0},
        m \in [(DOMAIN keep2d) \X (DOMAIN keep3d) -> IoUs]}

Frames ==
    UNION {FramesOf(k[1], k[2]) :
              k \in {c \in DistinctSeqs(Rois, MaxKeepFrame)
                              \X DistinctSeqs(Rois, MaxKeepFrame) :
                        \E u \in 0..NumRois :
                            Range(c[1]) \cup Range(c[2]) = 0..(u - 1)}}

\* every array of the 2D side has one entry per kept index
WellFormed(frame) == Len(frame.scores) = Len(frame.batch_box_keep2d)

\* cls_preds_2d[_j] (lines 2871, 2886, 2925) with _j past the end of the
\* array: IndexError.  Every 2D candidate's score is read by one of the three
\* branches, so a frame with a score missing always gets there.
IndexError(frame) ==
    \E j \in DOMAIN frame.batch_box_keep2d : j \notin DOMAIN frame.scores

\* the list of the frame before is kept: `final_scores_3d = []` and the like
\* (lines 2817-2828) are left out
list_of_frame_before(previous) == previous

\* lines 2817-2828: every output list is bound to a new empty list
list_of_frame(previous) == new_list

\* lines 2977-2991 (boxes and labels as the tags of the cells they come from)
record_dict ==
    [pred_boxes |-> final_boxes_3d,
     pred_scores |-> final_scores_3d,
     pred_labels |-> final_labels_3d,
     pred_boxes2d |-> final_boxes_2d,
     pred_scores2d |-> final_scores_2d,
     pred_labels2d |-> final_labels_2d,
     only_in_2d |-> only_in_2d,
     only_in_3d |-> only_in_3d,
     both |-> both,
     only3d_ious |-> only3d_ious,
     only2d_ious |-> only2d_ious,
     both_ious |-> both_ious]

\* a call of fusion_post_processing8 before the first iteration of
\* `for index in range(batch_size)`: no per-frame name is bound yet
InitBatch ==
    /\ batch_dict \in
          UNION {[1..n -> D] : n \in 0..MaxFrames,
                               D \in {S \in {{f, g} : f, g \in Frames} :
                                         Cardinality(S) <= MaxDistinctFrames}}
    /\ index = 0
    /\ pred_dicts = << >>
    /\ AbstractGeometry
    /\ SuppressionDone
    /\ zero_area = {}
    /\ has_cls_map = FALSE
    /\ batch_box_keep2d = << >>
    /\ preds_dict_2d = [pred_classes |-> << >>, scores |-> << >>,
                        pred_boxes_iou |-> << >>]
    /\ label_preds_2d = << >>
    /\ selected_boxes_2d = << >>
    /\ select_from_2d = << >>
    /\ select_from_3d = << >>
    /\ cls_preds_2d = << >>
    /\ cls_preds_3d = [r \in Rois |-> 0]
    /\ boxes_iou = << >>
    /\ indices_both = {}
    /\ indices_2d = << >>
    /\ indices_3d = << >>
    /\ non_match = FALSE
    /\ final_scores_2d = new_list /\ final_labels_2d = new_list
    /\ final_boxes_2d = new_list
    /\ final_scores_3d = new_list /\ final_labels_3d = new_list
    /\ final_boxes_3d = new_list
    /\ only_in_3d = 0 /\ only_in_2d = 0 /\ both = 0
    /\ only3d_ious = new_list /\ only2d_ious = new_list /\ both_ious = new_list
    /\ groups = NoGroups
    /\ pc = "loop"

\* lines 2754-2866 and 2880 of one iteration of the batch loop: the frame's
\* arrays are fetched, the accumulators bound anew, the index sets built
FrameFetch ==
    /\ pc = "loop"
    /\ index < Len(batch_dict)
    /\ ~IndexError(batch_dict[index + 1])
    /\ LET frame == batch_dict[index + 1]
       IN  /\ batch_box_keep2d' = frame.batch_box_keep2d
           /\ preds_dict_2d' =
                [pred_classes |-> [j \in DOMAIN frame.scores |-> cityscape_cls("Car")],
                 scores |-> frame.scores,
                 pred_boxes_iou |-> frame.pred_boxes_iou]
           /\ label_preds_2d' = preds_dict_2d'.pred_classes
           /\ selected_boxes_2d' = [j \in DOMAIN frame.scores |-> PredBox(j)]
           /\ select_from_2d' = frame.batch_box_keep2d
           /\ select_from_3d' = frame.select_from_3d
           /\ cls_preds_2d' = frame.scores
           /\ cls_preds_3d' = frame.batch_cls_preds
           /\ boxes_iou' = frame.pred_boxes_iou
    /\ final_scores_2d' = list_of_frame(final_scores_2d)
    /\ final_labels_2d' = list_of_frame(final_labels_2d)
    /\ final_boxes_2d' = list_of_frame(final_boxes_2d)
    /\ final_scores_3d' = list_of_frame(final_scores_3d)
    /\ final_labels_3d' = list_of_frame(final_labels_3d)
    /\ final_boxes_3d' = list_of_frame(final_boxes_3d)
    /\ only_in_3d' = 0 /\ only_in_2d' = 0 /\ both' = 0
    /\ only3d_ious' = list_of_frame(only3d_ious)
    /\ only2d_ious' = list_of_frame(only2d_ious)
    /\ both_ious' = list_of_frame(both_ious)
    /\ non_match' = FALSE
    /\ groups' = NoGroups
    /\ indices_both' = all_indices_both'
    /\ indices_2d' = init_indices_2d'
    /\ indices_3d' = init_indices_3d'
    /\ pc' = "assoc"
    /\ UNCHANGED <<batch, geometry, suppression, zero_area, has_cls_map>>

\* the same iteration for a frame with a score missing: the IndexError leaves
\* the loop and the function, which has no handler for it
FrameRaise ==
    /\ pc = "loop"
    /\ index < Len(batch_dict)
    /\ IndexError(batch_dict[index + 1])
    /\ pc' = "raised"
    /\ UNCHANGED <<inputs, indices_both, indices_2d, indices_3d, non_match,
                   lists2d, lists3d, counters, ious, groups>>

\* lines 2977-2993: the frame's record, the assertion, the append
FrameRecord ==
    /\ pc = "done"
    /\ IF Len(final_boxes_3d) >= Len(final_boxes_2d)
       THEN /\ pred_dicts' = Append(pred_dicts, record_dict)
            /\ index' = index + 1
            /\ pc' = "loop"
       ELSE \* AssertionError
            /\ pc' = "raised"
            /\ UNCHANGED <<pred_dicts, index>>
    /\ UNCHANGED <<batch_dict, inputs2d, geometry, suppression, zero_area,
                   select_from_2d, select_from_3d, cls_preds_2d, cls_preds_3d,
                   boxes_iou, indices_both, indices_2d, indices_3d, non_match,
                   lists2d, lists3d, counters, ious, groups>>

\* line 3011, after the last frame
BatchReturn ==
    /\ pc = "loop"
    /\ index = Len(batch_dict)
    /\ pc' = "returned"
    /\ UNCHANGED <<inputs, indices_both, indices_2d, indices_3d, non_match,
                   lists2d, lists3d, counters, ious, groups>>

NextBatch == FrameFetch \/ FrameRaise \/ Next \/ FrameRecord \/ BatchReturn
SpecBatch == InitBatch /\ [][NextBatch]_vars

\* ------------------------------------------- fusion_post_processing9
\* forward(): the post-processing function a call ends in ("none": the
\* training step returns its loss without predictions)
post_processing_of(training, self_training_mode, FUSION, precomputed, STRATEGY) ==
    IF training
    THEN IF self_training_mode THEN 9 ELSE "none"
    ELSE IF FUSION /\ (precomputed \/ STRATEGY = 9) THEN STRATEGY ELSE 6

\* lines 3146-3147: the lists hold every kept index of their side
sorted_indices_2d == Sorted(Range(select_from_2d))
sorted_indices_3d == Sorted(Range(select_from_3d))

\* a frame of fusion_post_processing9 at `non_match = False` (line 3161)
Init9 ==
    /\ select_from_2d \in DistinctSeqs(Rois, MaxKeep2d)
    /\ select_from_3d \in DistinctSeqs(Rois, MaxKeep3d)
    \* ROIs kept by neither side take no part: the kept ones are numbered from 0
    /\ \E u \in 0..NumRois :
          Range(select_from_2d) \cup Range(select_from_3d) = 0..(u - 1)
    /\ cls_preds_2d \in [DOMAIN select_from_2d -> Scores]
    \* the scores of ROIs the NMS suppressed are never read: fixed to 0
    /\ cls_preds_3d \in {f \in [Rois -> Scores] :
                            \A r \in Rois \ Range(select_from_3d) : f[r] = 0}
    /\ boxes_iou \in [(DOMAIN select_from_2d) \X (DOMAIN select_from_3d) -> IoUs]
    /\ zero_area \in {z \in SUBSET (DOMAIN select_from_3d) : ZeroAreaNoOverlap(z, boxes_iou)}
    /\ AbstractGeometry
    /\ SuppressionDone
    /\ OneFrame
    \* no class label map: the 2D predictions are used as they come
    /\ has_cls_map = FALSE
    /\ batch_box_keep2d = select_from_2d
    /\ preds_dict_2d =
          [pred_classes |-> [j \in DOMAIN select_from_2d |-> cityscape_cls("Car")],
           scores |-> cls_preds_2d,
           pred_boxes_iou |-> boxes_iou]
    /\ label_preds_2d = preds_dict_2d.pred_classes
    /\ selected_boxes_2d = [j \in DOMAIN select_from_2d |-> PredBox(j)]
    \* lines 3143-3145 are comments: no index is set aside
    /\ indices_both = {}
    /\ indices_2d = sorted_indices_2d
    /\ indices_3d = sorted_indices_3d
    /\ non_match = FALSE
    /\ final_scores_2d = new_list /\ final_labels_2d = new_list
    /\ final_boxes_2d = new_list
    /\ final_scores_3d = new_list /\ final_labels_3d = new_list
    /\ final_boxes_3d = new_list
    /\ only_in_3d = 0 /\ only_in_2d = 0 /\ both = 0
    /\ only3d_ious = new_list /\ only2d_ious = new_list /\ both_ious = new_list
    /\ groups = NoGroups
    /\ pc = "assoc9"

\* lines 3193-3215: one iteration that does not enter the branch at 3163
While9Match ==
    /\ pc = "assoc9"
    /\ WhileCond
    /\ ~SalvageCond
    /\ LET max_idx == ArgMax(indices_2d, indices_3d)
           sub_j == max_idx \div Len(indices_3d)
           sub_i == max_idx % Len(indices_3d)
           idx3d == indices_3d[sub_i + 1]
           idx2d == indices_2d[sub_j + 1]
           _j == commit_j(sub_j, idx2d)
           _i == inverse_idx_3d(idx3d)
       IN  IF CommitOK(SubIoU(indices_2d, indices_3d, max_idx), iou_thresh)
           THEN /\ indices_3d' = PopAt(indices_3d, sub_i)
                /\ indices_2d' = PopAt(indices_2d, sub_j)
                /\ final_scores_2d' = Append(final_scores_2d, cls_preds_2d[_j])
                /\ final_labels_2d' = Append(final_labels_2d, Label2d(_j))
                /\ final_boxes_2d' = Append(final_boxes_2d, Box2d(_j))
                /\ final_scores_3d' = Append(final_scores_3d, cls_preds_3d[idx3d])
                /\ final_labels_3d' = Append(final_labels_3d, Label3d(idx3d))
                /\ final_boxes_3d' = Append(final_boxes_3d, Box3d(idx3d))
                /\ both_ious' = Append(both_ious, iou_matrix[<<_j, _i>>])
                /\ both' = both + 1
                /\ groups' = [groups EXCEPT
                                !.matched = Append(@, <<idx2d, idx3d>>)]
                /\ UNCHANGED <<inputs, indices_both, non_match, only_in_3d,
                               only_in_2d, only3d_ious, only2d_ious, pc>>
           ELSE /\ non_match' = TRUE
                /\ UNCHANGED <<inputs, indices_both, indices_2d, indices_3d,
                               lists2d, lists3d, counters, ious, groups, pc>>

\* lines 3163-3192: the two salvage loops are comments, the branch is `break`;
\* what is still in the lists stays there and is never read again
While9Break ==
    /\ pc = "assoc9"
    /\ WhileCond
    /\ SalvageCond
    /\ pc' = "done9"
    /\ UNCHANGED <<inputs, indices_both, indices_2d, indices_3d, non_match,
                   lists2d, lists3d, counters, ious, groups>>

\* the while condition at 3162 is false
While9Exit ==
    /\ pc = "assoc9"
    /\ ~WhileCond
    /\ pc' = "done9"
    /\ UNCHANGED <<inputs, indices_both, indices_2d, indices_3d, non_match,
                   lists2d, lists3d, counters, ious, groups>>

Next9 == While9Match \/ While9Break \/ While9Exit
Spec9 == Init9 /\ [][Next9]_vars

\* a frame of either variant
InitEither == Init \/ Init9
NextEither == Next \/ Next9
SpecEither == InitEither /\ [][NextEither]_vars

\* ------------------------------------------------------------ the groups
Count(s, x) == Cardinality({k \in DOMAIN s : s[k] = x})
CountAt(s, n, x) == Cardinality({k \in DOMAIN s : s[k][n] = x})

Cands2d == Range(select_from_2d)
Cands3d == Range(select_from_3d)

\* number of group entries holding the 2D (3D) candidate x
Occ2d(x) ==
    CountAt(groups.matched, 1, x) + Count(groups.only2d, x) + Count(groups.dropped2d, x)
Occ3d(x) ==
    CountAt(groups.matched, 2, x) + Count(groups.only3d, x) + Count(groups.dropped3d, x)

\* number of emitted detections whose 2D (3D) label cell is that of candidate x
Emitted2d(x) == Count(final_labels_2d, Label2d(inverse_idx_2d(x)))
Emitted3d(x) == Count(final_labels_3d, Label3d(x))

IoUOf(idx2d, idx3d) == iou_matrix[<<inverse_idx_2d(idx2d), inverse_idx_3d(idx3d)>>]

Matched2d == {groups.matched[k][1] : k \in DOMAIN groups.matched}
Matched3d == {groups.matched[k][2] : k \in DOMAIN groups.matched}

\* the while loop is at the head of an iteration that enters the salvage branch
AtSalvage == pc = "assoc" /\ indices_both = {} /\ WhileCond /\ SalvageCond
\* the while loop is at the head of an iteration that evaluates torch.argmax
AtArgmax == pc = "assoc" /\ indices_both = {} /\ WhileCond /\ ~SalvageCond

\* ------------------------------------------------------------------ claims

\* C1: when the association finishes, every 2D candidate and every 3D
\* candidate is in exactly one of the groups matched, only-2D, only-3D,
\* dropped; at no time is a candidate in two groups or emitted twice, and
\* a candidate is emitted exactly when its group is matched or a salvage group.
C1_ExactlyOneGroup ==
    /\ \A x \in Cands2d :
        /\ Occ2d(x) <= 1
        /\ Emitted2d(x) = CountAt(groups.matched, 1, x) + Count(groups.only2d, x)
        /\ pc = "done" => Occ2d(x) = 1
    /\ \A x \in Cands3d :
        /\ Occ3d(x) <= 1
        /\ Emitted3d(x) = CountAt(groups.matched, 2, x) + Count(groups.only3d, x)
        /\ pc = "done" => Occ3d(x) = 1
    /\ Matched2d \cup Range(groups.only2d) \cup Range(groups.dropped2d) \subseteq Cands2d
    /\ Matched3d \cup Range(groups.only3d) \cup Range(groups.dropped3d) \subseteq Cands3d

C1_Witness ==
    /\ pc = "done"
    /\ all_indices_both # {}
    /\ Len(groups.matched) = 1
    /\ Len(groups.only2d) = 1
    /\ Len(groups.dropped3d) = 1

\* C2 (as stated): every entry counted in `both`, and every value recorded in
\* both_ious, has IoU >= iou_thresh.
C2_EveryMatchAboveThresh ==
    /\ Len(both_ious) = Len(groups.matched)
    /\ \A k \in DOMAIN both_ious : both_ious[k] >= iou_thresh

\* C2 (amended): every pair the greedy loop commits has IoU >= iou_thresh, and
\* the value it records in both_ious is that pair's IoU; the pairs committed
\* before the loop because both sides kept the same ROI index are recorded
\* with whatever IoU they have.
C2_GreedyMatchAboveThresh ==
    /\ both = Len(groups.matched)
    /\ Len(both_ious) = Len(groups.matched)
    /\ \A k \in DOMAIN groups.matched :
        LET idx2d == groups.matched[k][1]
            idx3d == groups.matched[k][2]
        IN  /\ both_ious[k] = IoUOf(idx2d, idx3d)
            /\ idx2d # idx3d => both_ious[k] >= iou_thresh

C2_Witness ==
    \E k \in DOMAIN groups.matched :
        /\ groups.matched[k][1] # groups.matched[k][2]
        /\ both_ious[k] = iou_thresh

\* C3: when the matching loop halts and salvage begins, no pair of a
\* still-unmatched 2D candidate and a still-unmatched 3D candidate has
\* IoU >= iou_thresh.
C3_GreedyStop ==
    AtSalvage =>
        \A a \in Range(indices_2d), b \in Range(indices_3d) : IoUOf(a, b) < iou_thresh

C3_Witness ==
    /\ AtSalvage
    /\ non_match
    /\ Len(groups.matched) = 1
    /\ Len(indices_2d) = 1
    /\ Len(indices_3d) = 1

\* C4: one 2D candidate and one 3D candidate whose IoU equals iou_thresh end
\* as one matched pair, and neither is salvaged or dropped.
C4_InclusiveMatch ==
    (/\ pc = "done"
     /\ Len(select_from_2d) = 1
     /\ Len(select_from_3d) = 1
     /\ boxes_iou[<<1, 1>>] = iou_thresh)
    => /\ groups = [NoGroups EXCEPT
                      !.matched = <<<<select_from_2d[1], select_from_3d[1]>>>>]
       /\ both = 1 /\ only_in_2d = 0 /\ only_in_3d = 0
       /\ both_ious = <<iou_thresh>>
       /\ Len(final_boxes_2d) = 1

C4_Witness ==
    /\ pc = "done"
    /\ Len(select_from_2d) = 1
    /\ Len(select_from_3d) = 1
    /\ select_from_2d[1] # select_from_3d[1]
    /\ boxes_iou[<<1, 1>>] = iou_thresh

\* C5: every 2D candidate the matching left unmatched ends in only-2D iff its
\* score >= cls_thresh_2d, and is dropped otherwise.
C5_Salvage2d ==
    pc = "done" =>
        \A x \in Cands2d \ Matched2d :
            LET score == cls_preds_2d[inverse_idx_2d(x)]
            IN  /\ Count(groups.only2d, x) = 1 <=> score >= cls_thresh_2d
                /\ Count(groups.dropped2d, x) = 1 <=> score < cls_thresh_2d
                /\ Emitted2d(x) = 1 <=> score >= cls_thresh_2d

C5_Witness ==
    /\ pc = "done"
    /\ \E x \in Range(groups.only2d) : cls_preds_2d[inverse_idx_2d(x)] = cls_thresh_2d
    /\ groups.dropped2d # << >>

\* C6: every 3D candidate the matching left unmatched ends in only-3D iff its
\* score > cls_thresh_3d, and is dropped otherwise (also at equality).
C6_Salvage3d ==
    pc = "done" =>
        \A x \in Cands3d \ Matched3d :
            /\ Count(groups.only3d, x) = 1 <=> cls_preds_3d[x] > cls_thresh_3d
            /\ Count(groups.dropped3d, x) = 1 <=> cls_preds_3d[x] <= cls_thresh_3d
            /\ Emitted3d(x) = 1 <=> cls_preds_3d[x] > cls_thresh_3d

C6_Witness ==
    /\ pc = "done"
    /\ \E x \in Range(groups.dropped3d) : cls_preds_3d[x] = cls_thresh_3d
    /\ groups.only3d # << >>

\* C7: with no 2D candidate, matched and only-2D are empty and each 3D
\* candidate is in only-3D or dropped by the cls_thresh_3d rule on its score.
C7_Empty2d ==
    (pc = "done" /\ Len(select_from_2d) = 0)
    => /\ groups.matched = << >> /\ both = 0 /\ both_ious = << >>
       /\ groups.only2d = << >> /\ only_in_2d = 0 /\ only2d_ious = << >>
       /\ groups.dropped2d = << >>
       /\ \A x \in Cands3d :
            /\ Count(groups.only3d, x) = 1 <=> cls_preds_3d[x] > cls_thresh_3d
            /\ Count(groups.dropped3d, x) = 1 <=> cls_preds_3d[x] <= cls_thresh_3d
       /\ only_in_3d = Cardinality({x \in Cands3d : cls_preds_3d[x] > cls_thresh_3d})

C7_Witness ==
    /\ pc = "done"
    /\ Len(select_from_2d) = 0
    /\ Len(groups.only3d) = 1
    /\ Len(groups.dropped3d) = 1

\* C8: with no 2D and no 3D candidate the association completes without
\* raising, all groups are empty, the counters are 0 and the output lists empty.
C8_EmptyFrame ==
    (Len(select_from_2d) = 0 /\ Len(select_from_3d) = 0)
    => /\ pc # "raised"
       /\ pc = "done" =>
            /\ groups = NoGroups
            /\ both = 0 /\ only_in_2d = 0 /\ only_in_3d = 0
            /\ both_ious = << >> /\ only2d_ious = << >> /\ only3d_ious = << >>
            /\ final_boxes_2d = << >> /\ final_scores_2d = << >>
            /\ final_labels_2d = << >>
            /\ final_boxes_3d = << >> /\ final_scores_3d = << >>
            /\ final_labels_3d = << >>

C8_Witness ==
    pc = "done" /\ Len(select_from_2d) = 0 /\ Len(select_from_3d) = 0

\* C9: torch.argmax is only evaluated with at least one still-unmatched
\* candidate on each side; an empty side sends the loop to salvage; the
\* per-axis maxima are taken over a matrix with no empty axis; nothing raises.
C9_ArgmaxGuarded ==
    /\ pc # "raised"
    /\ AtArgmax => Len(indices_2d) > 0 /\ Len(indices_3d) > 0
    /\ (pc = "assoc" /\ indices_both = {} /\ WhileCond
            /\ (Len(indices_2d) = 0 \/ Len(indices_3d) = 0)) => AtSalvage
    /\ DOMAIN iou_matrix # {}

C9_Witness ==
    /\ AtArgmax
    /\ Len(groups.matched) = 1
    /\ all_indices_both = {}

\* C10: for the frame's input and thresholds t1 < t2, the matched pairs under
\* t2 are among the matched pairs under t1 (so no candidate salvaged or dropped
\* under t1 is matched under t2); the association run computes MatchedWith.
Thresholds == 0..(MaxIoU + 1)
C10_Monotone ==
    pc = "done" =>
        /\ Range(groups.matched) = MatchedWith(iou_thresh)
        /\ \A t1, t2 \in Thresholds :
            t1 < t2 =>
                LET m1 == MatchedWith(t1)
                    m2 == MatchedWith(t2)
                IN  /\ m2 \subseteq m1
                    /\ {p[1] : p \in m2} \subseteq {p[1] : p \in m1}
                    /\ {p[2] : p \in m2} \subseteq {p[2] : p \in m1}

C10_Witness ==
    /\ pc = "done"
    /\ Len(groups.matched) = 2
    /\ all_indices_both = {}
    /\ MatchedWith(iou_thresh + 1) # MatchedWith(iou_thresh)
    /\ MatchedWith(iou_thresh + 1) # {}

\* C11: the matching is one-to-one: in every reachable state each 2D candidate
\* and each 3D candidate is in at most one matched pair, a matched candidate
\* is never salvaged (or dropped) afterwards, and it has left the lists the
\* loop still works on.
C11_OneToOne ==
    /\ \A x \in Cands2d : CountAt(groups.matched, 1, x) <= 1
    /\ \A x \in Cands3d : CountAt(groups.matched, 2, x) <= 1
    /\ Matched2d \cap (Range(groups.only2d) \cup Range(groups.dropped2d)) = {}
    /\ Matched3d \cap (Range(groups.only3d) \cup Range(groups.dropped3d)) = {}
    /\ Matched2d \cap Range(indices_2d) = {}
    /\ Matched3d \cap Range(indices_3d) = {}

C11_Witness ==
    /\ pc = "done"
    /\ all_indices_both = {}
    /\ Len(groups.matched) = 1
    /\ Len(groups.only2d) = 1
    /\ Len(groups.only3d) = 1
    \* the committed pair was not at the end of either list
    /\ groups.matched[1][1] < groups.only2d[1]
    /\ groups.matched[1][2] < groups.only3d[1]

\* positions of the final lists holding the detection of the 2D candidate x
\* (of the 3D candidate x)
At2d(x) == {k \in DOMAIN final_boxes_2d : final_boxes_2d[k] = Box2d(inverse_idx_2d(x))}
At3d(x) == {k \in DOMAIN final_labels_3d : final_labels_3d[k] = Label3d(x)}
AllBox3d == {Box3d(r) : r \in Rois}
AlignedLists ==
    /\ Len(final_scores_2d) = Len(final_boxes_2d)
    /\ Len(final_labels_2d) = Len(final_boxes_2d)
    /\ Len(final_scores_3d) = Len(final_boxes_2d)
    /\ Len(final_labels_3d) = Len(final_boxes_2d)
    /\ Len(final_boxes_3d) = Len(final_boxes_2d)

\* C12 as stated: the detection emitted for a 2D-only candidate has no 3D box
\* in the 3D box list.
C12_NoBox3dFor2dOnly ==
    \A x \in Range(groups.only2d) :
        \A k \in At2d(x) :
            k \in DOMAIN final_boxes_3d => final_boxes_3d[k] \notin AllBox3d

\* C12: every detection emitted for a 2D-only candidate carries, in the 3D
\* lists, the row of box_preds_3d with the candidate's own ROI index (which
\* is not the box of a 3D candidate kept by the NMS) and copies of the
\* candidate's 2D score and 2D label.
C12_Only2dCarriesRoiBox ==
    /\ AlignedLists
    /\ \A x \in Range(groups.only2d) :
        /\ x \notin Cands3d
        /\ Cardinality(At2d(x)) = 1
        /\ \A k \in At2d(x) :
            /\ final_boxes_3d[k] = Box3d(x)
            /\ final_scores_3d[k] = cls_preds_2d[inverse_idx_2d(x)]
            /\ final_labels_3d[k] = Label2d(inverse_idx_2d(x))

C12_Witness ==
    /\ pc = "done"
    /\ Len(groups.only2d) = 2
    /\ Len(groups.only3d) = 1
    /\ \E x \in Range(groups.only2d) : inverse_idx_2d(x) - 1 # x

\* C13: every detection emitted for a salvaged 3D-only candidate has, as its
\* 2D box, that candidate's own row of the clamped projected boxes, and as
\* its 2D score and 2D label the candidate's own 3D score and 3D label.
C13_Only3dOwnFootprint ==
    \A x \in Range(groups.only3d) :
        /\ Cardinality(At3d(x)) = 1
        /\ \A k \in At3d(x) :
            /\ final_boxes_2d[k] = ProjBox(inverse_idx_3d(x))
            /\ final_scores_2d[k] = cls_preds_3d[x]
            /\ final_labels_2d[k] = Label3d(x)
            /\ final_boxes_3d[k] = Box3d(x)
            /\ final_scores_3d[k] = cls_preds_3d[x]

C13_Witness ==
    /\ pc = "done"
    /\ Len(groups.only3d) = 2
    /\ Len(groups.only2d) = 1
    /\ \E x \in Range(groups.only3d) : inverse_idx_3d(x) # x + 1

\* C14: for every matched pair the emitted 2D box, score and label are those
\* of the pair's 2D candidate, the emitted 3D box, score and label those of
\* its 3D candidate, and the IoU recorded for it is the entry of the IoU
\* matrix for exactly that pair, also when earlier commits have shortened the
\* lists the sub-matrix is built from.
C14_MatchedPairFields ==
    /\ Len(both_ious) = Len(groups.matched)
    /\ Len(groups.matched) <= Len(final_boxes_2d)
    /\ \A k \in DOMAIN groups.matched :
        LET idx2d == groups.matched[k][1]
            idx3d == groups.matched[k][2]
            _j == inverse_idx_2d(idx2d)
        IN  /\ final_boxes_2d[k] = Box2d(_j)
            /\ final_scores_2d[k] = cls_preds_2d[_j]
            /\ final_labels_2d[k] = Label2d(_j)
            /\ final_boxes_3d[k] = Box3d(idx3d)
            /\ final_scores_3d[k] = cls_preds_3d[idx3d]
            /\ final_labels_3d[k] = Label3d(idx3d)
            /\ both_ious[k] = IoUOf(idx2d, idx3d)

C14_Witness ==
    /\ pc = "done"
    /\ all_indices_both = {}
    /\ Len(groups.matched) = 2
    \* the second commit read a sub-matrix whose row 0 is position 2
    /\ inverse_idx_2d(groups.matched[2][1]) = 2
    /\ inverse_idx_3d(groups.matched[2][2]) = 2
    /\ both_ious[1] # both_ious[2]

\* the 2D predictions whose class the label map sends to 0
Unmapped ==
    {p \in DOMAIN preds_dict_2d.pred_classes :
        cls_map[preds_dict_2d.pred_classes[p]] = 0}
\* the predicted boxes behind the emitted cells of selected_boxes_2d
EmittedPreds ==
    {selected_boxes_2d[final_boxes_2d[k][2]] :
        k \in {n \in DOMAIN final_boxes_2d : final_boxes_2d[n][1] = "selected_boxes_2d"}}

\* C15: with a class label map, a 2D prediction whose label maps to 0 is
\* taken out of every per-prediction array before the IoU matrix is built,
\* so it is never matched nor salvaged, whatever its score and IoU; each
\* prediction that is left keeps its own ROI index, score, box and IoU row
\* and carries its remapped label.
C15_UnmappedRemoved ==
    (has_cls_map /\ pc # "fetch") =>
        /\ \A p \in Unmapped :
            /\ PredBox(p) \notin Range(selected_boxes_2d)
            /\ batch_box_keep2d[p] \notin Cands2d
            /\ batch_box_keep2d[p] \notin
                    Matched2d \cup Range(groups.only2d) \cup Range(groups.dropped2d)
            /\ PredBox(p) \notin EmittedPreds
        /\ Len(select_from_2d) = Len(batch_box_keep2d) - Cardinality(Unmapped)
        /\ DOMAIN boxes_iou = (DOMAIN select_from_2d) \X (DOMAIN select_from_3d)
        /\ \A j \in DOMAIN select_from_2d :
            LET p == selected_boxes_2d[j][2]
            IN  /\ select_from_2d[j] = batch_box_keep2d[p]
                /\ label_preds_2d[j] = cls_map[preds_dict_2d.pred_classes[p]]
                /\ label_preds_2d[j] > 0
                /\ cls_preds_2d[j] = preds_dict_2d.scores[p]
                /\ \A i \in DOMAIN select_from_3d :
                    boxes_iou[<<j, i>>] = preds_dict_2d.pred_boxes_iou[<<p, i>>]
        /\ \A k \in DOMAIN final_labels_2d :
            final_labels_2d[k][1] = "label_preds_2d" =>
                final_boxes_2d[k] = Box2d(final_labels_2d[k][2])

C15_Witness ==
    /\ pc = "done"
    /\ has_cls_map
    /\ Unmapped = {1}
    /\ Len(batch_box_keep2d) = 2
    /\ all_indices_both = {}
    \* the prediction taken out had the better score and the better IoU
    /\ preds_dict_2d.scores[1] = MaxScore
    /\ Len(select_from_3d) = 1
    /\ preds_dict_2d.pred_boxes_iou[<<1, 1>>] > preds_dict_2d.pred_boxes_iou[<<2, 1>>]
    /\ Matched2d = {batch_box_keep2d[2]}

InRange(v, lo, hi) == lo <= v /\ v <= hi

\* C16: from the clamp on, hence when the IoU matrix is built and when the
\* box is appended, the projected box has x1 and x2 in [x_min, x_max - 1],
\* y1 and y2 in [y_min, y_max - 1], x1 <= x2 and y1 <= y2; before the clamp
\* no IoU has been computed from it and it has been appended nowhere.
C16_ClampedInRange ==
    /\ pc = "projected" => boxes_iou = << >> /\ final_boxes_2d = << >>
    /\ pc # "projected" =>
        /\ InRange(select_project_box[1], image_valid_range[1], image_valid_range[3] - 1)
        /\ InRange(select_project_box[3], image_valid_range[1], image_valid_range[3] - 1)
        /\ InRange(select_project_box[2], image_valid_range[2], image_valid_range[4] - 1)
        /\ InRange(select_project_box[4], image_valid_range[2], image_valid_range[4] - 1)
        /\ select_project_box[1] <= select_project_box[3]
        /\ select_project_box[2] <= select_project_box[4]
    /\ pc \in {"iou", "appended", "assembled"} =>
        boxes_iou[<<1, 1>>] = boxes_iou_normal(selected_boxes_2d[1], select_project_box)

C16_Witness ==
    /\ pc = "iou"
    \* the projection reached over the valid range on the left and at the bottom
    /\ projected_box[1] < image_valid_range[1]
    /\ projected_box[4] > image_valid_range[4] - 1
    /\ projected_box[3] = image_valid_range[3]
    /\ select_project_box[1] < select_project_box[3]
    /\ select_project_box[2] < select_project_box[4]
    /\ boxes_iou[<<1, 1>>][1] > 0

\* the 3D candidates whose clamped projected box has no area
ZeroArea3d == {select_from_3d[i] : i \in zero_area}

\* C17 as stated: a 3D candidate whose clamped projected box has zero area
\* is never in a matched pair.
C17_ZeroAreaNeverMatched == ZeroArea3d \cap Matched3d = {}

\* C17: a 3D candidate whose clamped projected box has zero area has IoU 0
\* with every 2D candidate; with iou_thresh > 0 it is in a matched pair
\* exactly when its ROI index is also kept on the 2D side (then the pair is
\* the same-index pair, recorded with IoU 0), and otherwise it ends in
\* only-3D when its score is above cls_thresh_3d and is dropped when not.
C17_ZeroAreaMatchedOnlyByIndex ==
    /\ iou_thresh > 0
    /\ \A x \in ZeroArea3d :
        /\ \A j \in 1..iou_rows : iou_matrix[<<j, inverse_idx_3d(x)>>] = 0
        /\ x \in Matched3d => x \in all_indices_both
        /\ \A k \in DOMAIN groups.matched :
            groups.matched[k][2] = x =>
                groups.matched[k][1] = x /\ both_ious[k] = 0
        /\ (pc = "done" /\ x \in all_indices_both) => x \in Matched3d
        /\ (pc = "done" /\ x \notin all_indices_both) =>
            /\ x \in Range(groups.only3d) <=> cls_preds_3d[x] > cls_thresh_3d
            /\ x \in Range(groups.dropped3d) <=> ~(cls_preds_3d[x] > cls_thresh_3d)

C17_Witness ==
    /\ pc = "done"
    /\ Len(select_from_2d) = 2
    /\ Len(select_from_3d) = 2
    /\ all_indices_both = {}
    \* one 3D candidate without area is salvaged, the other one is matched
    /\ \E x \in ZeroArea3d : x \in Range(groups.only3d)
    /\ Len(groups.matched) = 1
    /\ groups.matched[1][2] \notin ZeroArea3d

\* C18: the counters and the IoU lists agree with the groups: `both` is the
\* number of matched pairs and the length of both_ious, only_in_2d the number
\* of 2D-only detections and the length of only2d_ious, only_in_3d the number
\* of 3D-only detections and the length of only3d_ious; the number of emitted
\* detections is their sum and is at most the number of 2D candidates plus
\* the number of 3D candidates.  It holds while the loops run and at the end.
C18_CountersAgree ==
    /\ both = Len(groups.matched)
    /\ both = Len(both_ious)
    /\ only_in_2d = Len(groups.only2d)
    /\ only_in_2d = Len(only2d_ious)
    /\ only_in_3d = Len(groups.only3d)
    /\ only_in_3d = Len(only3d_ious)
    /\ Len(final_boxes_2d) = both + only_in_2d + only_in_3d
    /\ Len(final_boxes_3d) = both + only_in_2d + only_in_3d
    /\ both + only_in_2d + only_in_3d <= Len(select_from_2d) + Len(select_from_3d)

C18_Witness ==
    /\ pc = "done"
    /\ both = 1
    /\ only_in_2d = 1
    /\ only_in_3d = 1

Detections(record) == Len(record.pred_boxes)

\* C21: frames are independent.  The record of a frame depends on that
\* frame's own arrays only: two frames of a call with the same arrays get the
\* same record, whatever their places in the batch and whatever frame was
\* processed between them, and a record holds no more detections than its own
\* frame has candidates (nothing is carried over from the frame before).
C21_FramesIndependent ==
    /\ \A i, j \in DOMAIN pred_dicts :
          batch_dict[i] = batch_dict[j] => pred_dicts[i] = pred_dicts[j]
    /\ \A i \in DOMAIN pred_dicts :
          /\ Detections(pred_dicts[i]) =
                pred_dicts[i].both + pred_dicts[i].only_in_2d + pred_dicts[i].only_in_3d
          /\ Detections(pred_dicts[i]) <=
                Len(batch_dict[i].batch_box_keep2d) + Len(batch_dict[i].select_from_3d)

\* a frame, a different frame with other detections, then the first frame
\* once more: all three records are returned
C21_Witness ==
    /\ pc = "returned"
    /\ Len(pred_dicts) = 3
    /\ batch_dict[1] = batch_dict[3]
    /\ batch_dict[2] # batch_dict[1]
    /\ Detections(pred_dicts[1]) > 0
    /\ Detections(pred_dicts[2]) > 0
    /\ pred_dicts[2] # pred_dicts[1]

\* ---------------------------------------------------------------- C22
\* C22: a malformed frame (arrays of one modality that differ in length)
\* aborts that frame only; it is not processed, and the call still returns
\* the records of all the other frames of the batch.
C22_MalformedFrameIsolated ==
    pc \in {"raised", "returned"} =>
        /\ pc = "returned"
        /\ Len(pred_dicts) =
              Cardinality({i \in DOMAIN batch_dict : WellFormed(batch_dict[i])})

\* ---------------------------------------------------------------- C23
\* the arrays the association is given: kept indices, scores, labels, boxes
\* and IoUs of both sides
candidate_arrays ==
    <<batch_box_keep2d, preds_dict_2d, select_from_2d, select_from_3d,
      cls_preds_2d, cls_preds_3d, label_preds_2d, selected_boxes_2d, boxes_iou>>

\* values a candidate of either side has
CandScores ==
    {cls_preds_2d[j] : j \in DOMAIN select_from_2d}
        \cup {cls_preds_3d[x] : x \in Cands3d}
CandLabels ==
    {Label2d(j) : j \in DOMAIN select_from_2d} \cup {Label3d(x) : x \in Cands3d}
CandBoxes2d ==
    {Box2d(j) : j \in DOMAIN select_from_2d}
        \cup {ProjBox(i) : i \in DOMAIN select_from_3d}

\* every emitted score, label and 2D box is a candidate's (or a 3D
\* candidate's clamped projection); the 3D boxes are among `boxes3d`
EmittedAmong(boxes3d) ==
    /\ Range(final_scores_2d) \cup Range(final_scores_3d) \subseteq CandScores
    /\ Range(final_labels_2d) \cup Range(final_labels_3d) \subseteq CandLabels
    /\ Range(final_boxes_2d) \subseteq CandBoxes2d
    /\ Range(final_boxes_3d) \subseteq boxes3d

\* C23 as stated: the association leaves its inputs as they are, and every
\* emitted box, score and label is a value of an input candidate (or the
\* clamped projection of a 3D candidate)
C23_EmittedFromCandidates == EmittedAmong({Box3d(x) : x \in Cands3d})

\* C23, amended: no step of the association changes an input array, and
\* every emitted value is a candidate's, but for the 3D box of a 2D-only
\* detection, which is the row of box_preds_3d at the 2D candidate's index
C23_FiltersAndReindexes ==
    [][/\ candidate_arrays' = candidate_arrays
       /\ EmittedAmong({Box3d(x) : x \in Cands3d \cup Range(groups.only2d)})']_vars

\* a frame that ends with a detection of each kind
C23_Witness ==
    /\ pc = "done"
    /\ Len(groups.matched) > 0
    /\ Len(groups.only2d) > 0
    /\ Len(groups.only3d) > 0

\* ---------------------------------------------------------------- C24
\* no pair of a still-unmatched 2D and a still-unmatched 3D candidate reaches
\* the threshold
BestBelowThresh ==
    \A a \in Range(indices_2d), b \in Range(indices_3d) : IoUOf(a, b) < iou_thresh

\* C24: hard stop.  The iteration that finds the best remaining pair below
\* iou_thresh commits nothing and sets the stop flag; from then on no pair is
\* added to the matched ones, and the one step that is left is the salvage
\* of what remains, which ends the loop.
C24_HardStop ==
    [][/\ (AtArgmax /\ BestBelowThresh) =>
              (non_match' /\ groups'.matched = groups.matched)
       /\ non_match =>
              /\ groups'.matched = groups.matched
              /\ both' = both
              /\ pc = "assoc" => pc' = "done"
       /\ (non_match' /\ pc' = "assoc") => AtSalvage']_vars

\* a pair was committed, the next best pair was below the threshold, and
\* the candidates left on both sides went through salvage
C24_Witness ==
    /\ pc = "done"
    /\ non_match
    /\ Len(groups.matched) > 0
    /\ Len(groups.only2d) + Len(groups.dropped2d) > 0
    /\ Len(groups.only3d) + Len(groups.dropped3d) > 0

\* ---------------------------------------------------------------- C25
\* the entries of groups.matched the greedy loop committed: those after the
\* same-index pairs
GreedyCommits ==
    {k \in DOMAIN groups.matched : k > Cardinality(all_indices_both)}

\* the 2D (3D) candidates still unmatched when the greedy loop made commit k
Unmatched2dAt(k) ==
    (Cands2d \ all_indices_both)
        \ {groups.matched[n][1] : n \in {m \in GreedyCommits : m < k}}
Unmatched3dAt(k) ==
    (Cands3d \ all_indices_both)
        \ {groups.matched[n][2] : n \in {m \in GreedyCommits : m < k}}

\* C25: each pair the greedy loop commits is a global maximum at the time of
\* its commit (no pair of a then-unmatched 2D and a then-unmatched 3D
\* candidate has a larger IoU), and the IoUs of the pairs the greedy loop
\* commits do not increase in commit order.
C25_GlobalMaximum ==
    indices_both = {} =>
        /\ \A k \in GreedyCommits :
              /\ both_ious[k] = IoUOf(groups.matched[k][1], groups.matched[k][2])
              /\ \A a \in Unmatched2dAt(k), b \in Unmatched3dAt(k) :
                    both_ious[k] >= IoUOf(a, b)
        /\ \A k, n \in GreedyCommits : k < n => both_ious[k] >= both_ious[n]

\* two greedy commits with different IoUs, the first of them not the pair of
\* the first row and first column
C25_Witness ==
    /\ pc = "done"
    /\ all_indices_both = {}
    /\ Len(groups.matched) = 2
    /\ both_ious[1] > both_ious[2]
    /\ groups.matched[1] # <<init_indices_2d[1], init_indices_3d[1]>>

\* ---------------------------------------------------------------- C26
\* what is left to do in the frame: same-index pairs to visit, candidates in
\* the two lists, the stop flag to set, the loop to leave
LoopVariant ==
    Cardinality(indices_both) + Len(indices_2d) + Len(indices_3d)
        + (IF non_match THEN 0 ELSE 1) + (IF pc = "assoc" THEN 1 ELSE 0)

\* the frame's loops can take a step that changes the state, and torch.argmax
\* is never asked for the maximum of an empty sub-matrix
CanProgress ==
    /\ pc # "raised"
    /\ pc = "assoc" =>
          \/ indices_both # {}
          \/ ~WhileCond
          \/ AtSalvage
          \/ AtArgmax /\ ~non_match /\ Len(indices_2d) > 0 /\ Len(indices_3d) > 0

\* the greedy loop has committed no more pairs than the shorter list held
AtMostMinCommits ==
    Cardinality(GreedyCommits) <=
        Minimum({Len(init_indices_2d), Len(init_indices_3d)})

\* C26: the association loop of a frame terminates.  With M unmatched 2D and
\* K unmatched 3D candidates it commits at most min(M, K) pairs; every
\* iteration either commits a pair and shortens both lists by one, or sets
\* the stop flag, or runs salvage, which empties both lists, and exits; each
\* step lowers a natural-number variant and a step is possible until the loop
\* is left, so no state loops forever.
C26_Terminates ==
    [][/\ CanProgress /\ CanProgress'
       /\ AtMostMinCommits /\ AtMostMinCommits'
       /\ LoopVariant' < LoopVariant
       /\ (pc = "assoc" /\ indices_both = {} /\ WhileCond) =>
             \/ /\ Len(groups'.matched) = Len(groups.matched) + 1
                /\ Len(indices_2d') = Len(indices_2d) - 1
                /\ Len(indices_3d') = Len(indices_3d) - 1
                /\ pc' = "assoc"
             \/ /\ ~non_match /\ non_match'
                /\ indices_2d' = indices_2d /\ indices_3d' = indices_3d
                /\ pc' = "assoc"
             \/ /\ AtSalvage
                /\ indices_2d' = << >> /\ indices_3d' = << >>
                /\ pc' = "done"]_vars

\* the longest run: two commits, then the exit with nothing left
C26_Witness ==
    /\ pc = "done"
    /\ Cardinality(GreedyCommits) = 2
    /\ Len(init_indices_2d) = 2 /\ Len(init_indices_3d) = 2
    /\ ~non_match

\* ---------------------------------------------------------------- C28
\* the branch that emitted detection k, read off the cells it holds: a
\* matched one has a 2D box of the 2D branch and a 3D label of the 3D side,
\* a 2D-only one a copy of its 2D label as 3D label, a 3D-only one a
\* projected box as 2D box
EmittedBy(k) ==
    IF final_boxes_2d[k][1] = "select_project_box" THEN 3
    ELSE IF final_labels_3d[k][1] = "label_preds_2d" THEN 2
    ELSE 1

\* the ROI index of the candidate a salvaged detection stands for
SalvagedIndex(k) == final_boxes_3d[k][2]

\* C28: output order.  In the emitted list all matched detections come before
\* all 2D-only ones, which come before all 3D-only ones (so nothing matched is
\* appended once salvage has started), and within each salvage group the
\* detections are in descending order of candidate index.
C28_OutputOrder ==
    \A k, n \in DOMAIN final_boxes_2d :
        k < n =>
            /\ EmittedBy(k) <= EmittedBy(n)
            /\ (EmittedBy(k) = EmittedBy(n) /\ EmittedBy(k) > 1) =>
                  SalvagedIndex(k) > SalvagedIndex(n)

\* a frame that emits one detection of each kind, in that order
C28_Witness ==
    /\ pc = "done"
    /\ Len(final_boxes_2d) = 3
    /\ EmittedBy(1) = 1 /\ EmittedBy(2) = 2 /\ EmittedBy(3) = 3
    /\ SalvagedIndex(2) < SalvagedIndex(3)

\* ---------------------------------------------------------------- C29
\* detections emitted with the 2D box of 2D candidate x and the 3D box of
\* 3D candidate y
EmittedPair(x, y) ==
    {k \in DOMAIN final_boxes_2d :
        /\ final_boxes_2d[k] = Box2d(inverse_idx_2d(x))
        /\ final_boxes_3d[k] = Box3d(y)
        /\ final_labels_3d[k] = Label3d(y)}

\* C29: an index kept on both sides is committed as a matched pair of its own
\* 2D entry and its own 3D entry, once, before the greedy loop starts; it is
\* in neither list the greedy loop and the salvage work on, which hold
\* indices of one side only.
C29_SameIndexFirst ==
    /\ \A x \in all_indices_both :
          /\ x \notin Range(indices_2d) \cup Range(indices_3d)
          /\ x \notin Range(groups.only2d) \cup Range(groups.dropped2d)
                         \cup Range(groups.only3d) \cup Range(groups.dropped3d)
          /\ CountAt(groups.matched, 1, x) = Count(groups.matched, <<x, x>>)
          /\ CountAt(groups.matched, 2, x) = Count(groups.matched, <<x, x>>)
          /\ Count(groups.matched, <<x, x>>) = (IF x \in indices_both THEN 0 ELSE 1)
          /\ Cardinality(EmittedPair(x, x)) = (IF x \in indices_both THEN 0 ELSE 1)
          /\ EmittedPair(x, x) \subseteq 1..Cardinality(all_indices_both)
    /\ Range(indices_2d) \cap Cands3d = {}
    /\ Range(indices_3d) \cap Cands2d = {}
    \* the while loop has not started while a same-index pair is left
    /\ indices_both # {} =>
          /\ indices_2d = init_indices_2d /\ indices_3d = init_indices_3d
          /\ ~non_match
          /\ Len(final_boxes_2d) = Cardinality(all_indices_both \ indices_both)

\* a frame with a same-index pair and a pair committed by the greedy loop
C29_Witness ==
    /\ pc = "done"
    /\ Cardinality(all_indices_both) = 1
    /\ Len(groups.matched) = 2
    /\ groups.matched[1][1] = groups.matched[1][2]
    /\ groups.matched[2][1] # groups.matched[2][2]

\* ---------------------------------------------------------------- C27
\* C27: the assertion len(final_boxes_3d) >= len(final_boxes_2d) at the end
\* of a frame never fails, in fusion_post_processing8 and in
\* fusion_post_processing9: whatever commits and salvages have run, the six
\* output lists have the same length.
C27_AssertNeverFails ==
    /\ Len(final_boxes_3d) >= Len(final_boxes_2d)
    /\ Len(final_scores_2d) = Len(final_boxes_3d)
    /\ Len(final_labels_2d) = Len(final_boxes_3d)
    /\ Len(final_boxes_2d) = Len(final_boxes_3d)
    /\ Len(final_scores_3d) = Len(final_boxes_3d)
    /\ Len(final_labels_3d) = Len(final_boxes_3d)
    /\ Len(final_boxes_3d) = both + only_in_2d + only_in_3d

\* the end of a frame of fusion_post_processing8 that emitted a pair and a
\* 2D-only detection
C27_Witness ==
    /\ pc = "done"
    /\ both > 0
    /\ only_in_2d > 0
    /\ Len(final_boxes_2d) = both + only_in_2d + only_in_3d

\* ---------------------------------------------------------------- C30
\* C30: fusion_post_processing9, the function forward() calls in
\* self-training mode and for STRATEGY 9, salvages nothing: every emitted
\* detection is a pair the greedy loop committed with an IoU of at least
\* iou_thresh, only_in_2d and only_in_3d are 0 and only2d_ious and
\* only3d_ious are empty, and the candidates still unmatched when the loop
\* stops are dropped whatever their scores.
C30_NoSalvage ==
    /\ \A eval_self_training, FUSION, precomputed \in BOOLEAN :
          /\ post_processing_of(TRUE, TRUE, FUSION, precomputed, 8) = 9
          /\ post_processing_of(FALSE, eval_self_training, TRUE, precomputed, 9) = 9
    /\ only_in_2d = 0 /\ only_in_3d = 0
    /\ only2d_ious = << >> /\ only3d_ious = << >>
    /\ both = Len(groups.matched)
    /\ Len(final_boxes_2d) = both /\ Len(final_boxes_3d) = both
    /\ Len(both_ious) = both
    /\ \A k \in DOMAIN groups.matched :
          /\ both_ious[k] = IoUOf(groups.matched[k][1], groups.matched[k][2])
          /\ both_ious[k] >= iou_thresh
          /\ final_boxes_2d[k] = Box2d(inverse_idx_2d(groups.matched[k][1]))
          /\ final_boxes_3d[k] = Box3d(groups.matched[k][2])
    /\ pc = "done9" =>
          /\ \A x \in Range(indices_2d) : Emitted2d(x) = 0
          /\ \A x \in Range(indices_3d) : Emitted3d(x) = 0

\* a pair is committed, then the loop stops with a 2D candidate and a 3D
\* candidate left whose scores would have passed the salvage thresholds
C30_Witness ==
    /\ pc = "done9"
    /\ both = 1
    /\ \E x \in Range(indices_2d) : Keep2d(x)
    /\ \E x \in Range(indices_3d) : Keep3d(x)
====
